---- MODULE Spec2Model ----
(***************************************************************************)
(* Model of src/src/main.rs: a Compute@Edge program that fetches a page    *)
(* from the origin, splits the HTML text into parts that need a ruby       *)
(* (kanji / hiragana runs inside text nodes) and parts that do not, asks   *)
(* the hiragana API for the readings and rebuilds the page.                *)
(*                                                                         *)
(* Strings are sequences of one-character strings.  The module is plain    *)
(* ASCII, so Japanese characters are written with stand-ins:               *)
(*   kanji     K = 日  J = 本  G = 語  M = 難                              *)
(*   hiragana  n = に  f = ほ  q = ん  g = ご  h = が  m = む  z = ず      *)
(*             k = か  s = し  i = い  b = で  u = す  y = よ              *)
(*   katakana  T = ア                                                      *)
(***************************************************************************)
EXTENDS Integers, Sequences, FiniteSets, TLC

VARIABLES pc, outcome, req, resp, sends, api_calls, api_status, response,
          body_string, i, content, html_parts, jp_content,
          ruby, part_idx, ruby_i, html_page

vars == << pc, outcome, req, resp, sends, api_calls, api_status, response,
           body_string, i, content, html_parts, jp_content,
           ruby, part_idx, ruby_i, html_page >>

scan_vars == << body_string, i, content, html_parts, jp_content >>
gen_vars == << ruby, part_idx, ruby_i, html_page >>

-----------------------------------------------------------------------------
(* Bounds of the model *)

\* longest enumerated document (in characters)
MaxLen == 5
\* longest enumerated `converted` field of the API response
MaxResp == 2
\* html_parts entries the scan may push beyond the document length before the
\* model stops following a scan that no longer advances
MaxExtraParts == 2

-----------------------------------------------------------------------------
(* Characters and their classification (crate kanji) *)

Kanji == {"K", "J", "G", "M"}
Hiragana == {"n", "f", "q", "g", "h", "m", "z", "k", "s", "i", "b", "u", "y"}

is_kanji(c) == c \in Kanji
is_hiragana(c) == c \in Hiragana

\* characters of the enumerated documents: tag delimiters, an ASCII letter,
\* one kanji, one hiragana, one katakana
Alphabet == {"<", ">", "x", "K", "h", "T"}

SeqsUpTo(S, n) == UNION {[1..k -> S] : k \in 0..n}

\* "日本語が難しいですよ"
ExampleA == <<"K", "J", "G", "h", "M", "s", "i", "b", "u", "y">>
\* "にほんごがむずかしいですよ"
ReadingA == <<"n", "f", "q", "g", "h", "m", "z", "k", "s", "i", "b", "u", "y">>
\* "<p>Hello 日本 World</p>"
ExampleB == <<"<", "p", ">", "H", "e", "l", "l", "o", " ", "K", "J", " ",
              "W", "o", "r", "l", "d", "<", "/", "p", ">">>
\* "にほん"
ReadingB == <<"n", "f", "q">>
\* ">日本アが\n": katakana between a kanji run and a hiragana run
KatakanaDoc == <<">", "K", "J", "T", "h", "\n">>

Docs == SeqsUpTo(Alphabet, MaxLen) \cup {ExampleA, ExampleB, KatakanaDoc}

\* values the API may put in `converted`
Converted == SeqsUpTo({"q", ","}, MaxResp)
               \cup {ReadingA, ReadingB, ReadingB \o <<",">>}

-----------------------------------------------------------------------------
(* HTTP values *)

AbsentHeader == "<absent>"
\* a filter that lets DELETE through as well
VALID_METHODS_AND_DELETE == {"HEAD", "GET", "POST", "DELETE"}

\* main.rs 43
VALID_METHODS == {"HEAD", "GET", "POST"}
Methods == VALID_METHODS \cup {"DELETE"}

OK == 200
MOVED_PERMANENTLY == 301
METHOD_NOT_ALLOWED == 405

\* a request that was moved into send
NoRequest == [method |-> "-", uri |-> "-"]

NoResponse == [status |-> 0, ctype |-> AbsentHeader, location |-> AbsentHeader,
               body |-> <<>>]

Locations == {AbsentHeader, "https://www.fastly.jp/ja/", "https://example.com/"}
\* Regex r"https?://www\.fastly\.jp(/[a-zA-z0-9@:%._\+~#=/]*$)" on the sample
\* locations
re_is_match(location) == location = "https://www.fastly.jp/ja/"

ContentTypes == {AbsentHeader, "text/html", "text/html; charset=utf-8", "image/png"}

\* bodies of the responses that are not 200 text/html
OtherBodies == SeqsUpTo(Alphabet, 1) \cup {ExampleB}

OriginResponses ==
    {[status |-> OK, ctype |-> "text/html", location |-> AbsentHeader, body |-> b] :
        b \in Docs}
    \cup
    {[status |-> st, ctype |-> ct, location |-> AbsentHeader, body |-> b] :
        st \in {OK, 204, 404}, ct \in ContentTypes, b \in OtherBodies}
    \cup
    {[status |-> st, ctype |-> ct, location |-> lo, body |-> b] :
        st \in {MOVED_PERMANENTLY}, ct \in {AbsentHeader, "text/html"},
        lo \in Locations, b \in {<<>>}}

-----------------------------------------------------------------------------
Init ==
    /\ pc = "main"
    /\ outcome = "running"
    /\ req \in {[method |-> m, uri |-> "/"] : m \in Methods}
    /\ resp = NoResponse
    /\ sends = 0
    /\ api_calls = 0
    /\ api_status = 0
    /\ response = NoResponse
    /\ body_string = <<>>
    /\ i = 0
    /\ content = <<>>
    /\ html_parts = <<>>
    /\ jp_content = <<>>
    /\ ruby = <<>>
    /\ part_idx = 0
    /\ ruby_i = 0
    /\ html_page = <<>>

\* main returns Ok(r)
ReturnOk(r) ==
    /\ pc' = "done"
    /\ outcome' = "ok"
    /\ response' = r

\* main returns Err (the ? operator)
ReturnErr ==
    /\ pc' = "done"
    /\ outcome' = "error"
    /\ response' = NoResponse

\* unwrap on None, index out of bounds
Panic ==
    /\ pc' = "done"
    /\ outcome' = "panic"
    /\ response' = NoResponse

\* main.rs 43-48
MethodNotAllowed ==
    /\ pc = "main"
    /\ req.method \notin VALID_METHODS
    /\ ReturnOk([status |-> METHOD_NOT_ALLOWED, ctype |-> AbsentHeader,
                 location |-> AbsentHeader,
                 body |-> <<"This method is not allowed">>])
    /\ UNCHANGED << req, resp, sends, api_calls, api_status, scan_vars, gen_vars >>

\* main.rs 54: req.send(BACKEND_NAME)?
SendOrigin ==
    /\ pc = "main"
    /\ req.method \in VALID_METHODS
    /\ req' = NoRequest
    /\ sends' = sends + 1
    /\ \/ /\ ReturnErr
          /\ UNCHANGED resp
       \/ /\ \E r \in OriginResponses : resp' = r
          /\ pc' = "redirect"
          /\ UNCHANGED << outcome, response >>
    /\ UNCHANGED << api_calls, api_status, scan_vars, gen_vars >>

\* a redirect request that keeps the method of a form post
RedirectRequestPost(location) == [method |-> "POST", uri |-> location]

\* main.rs 59: Request::get(location).body(())
RedirectRequest(location) == [method |-> "GET", uri |-> location]

\* main.rs 55-59: a permanent redirect to the origin's own host is followed:
\* the request for its location is built
Redirect ==
    /\ pc = "redirect"
    /\ IF resp.status = MOVED_PERMANENTLY
       THEN IF resp.location = AbsentHeader
            THEN \* headers().get(LOCATION).unwrap()
                 /\ Panic
                 /\ UNCHANGED req
            ELSE IF re_is_match(resp.location)
                 THEN /\ req' = RedirectRequest(resp.location)
                      /\ pc' = "resend"
                      /\ UNCHANGED << outcome, response >>
                 ELSE /\ pc' = "decide"
                      /\ UNCHANGED << outcome, response, req >>
       ELSE /\ pc' = "decide"
            /\ UNCHANGED << outcome, response, req >>
    /\ UNCHANGED << resp, sends, api_calls, api_status, scan_vars, gen_vars >>

\* main.rs 60: resp = req.send(BACKEND_NAME)?
SendRedirect ==
    /\ pc = "resend"
    /\ req' = NoRequest
    /\ sends' = sends + 1
    /\ \/ /\ ReturnErr
          /\ UNCHANGED resp
       \/ /\ \E r \in OriginResponses : resp' = r
          /\ pc' = "decide"
          /\ UNCHANGED << outcome, response >>
    /\ UNCHANGED << api_calls, api_status, scan_vars, gen_vars >>

\* main.rs 63: the condition that selects the annotate branch
IsHtmlOk(r) == r.status = OK /\ r.ctype = "text/html"

\* main.rs 63-75
Decide ==
    /\ pc = "decide"
    /\ IF resp.status = OK /\ resp.ctype = AbsentHeader
       THEN \* headers().get(CONTENT_TYPE).unwrap()
            /\ Panic
            /\ UNCHANGED << resp, scan_vars >>
       ELSE IF IsHtmlOk(resp)
            THEN \* resp.into_body().into_string(); analyze_jp(body_string)
                 /\ body_string' = resp.body
                 /\ resp' = NoResponse
                 /\ i' = 0
                 /\ content' = <<>>
                 /\ html_parts' = <<>>
                 /\ jp_content' = <<>>
                 /\ pc' = "outer"
                 /\ UNCHANGED << outcome, response >>
            ELSE \* Ok(resp)
                 /\ ReturnOk(resp)
                 /\ UNCHANGED << resp, scan_vars >>
    /\ UNCHANGED << req, sends, api_calls, api_status, gen_vars >>

-----------------------------------------------------------------------------
(* analyze_jp, main.rs 78-159 *)

\* main.rs 79: chars_num
chars_num == Len(body_string)

\* main.rs 80: html_chars[k], k counted from 0 as in the source
html_chars(k) == body_string[k + 1]

\* main.rs 108, 125, 126, 141: the negation of `!is_kanji(&c) && !is_hiragana(&c)`
need_ruby_char(c) == is_kanji(c) \/ is_hiragana(c)

\* main.rs 100-104, 115-119, 132-136, 144-148: html_parts.push(HtmlPart {..})
PushPart(parts, c, need_ruby) ==
    Append(parts, [content |-> c, need_ruby |-> need_ruby])

\* main.rs 120, 137: format!("{}{},", jp_content, content)
JoinJp(jp, c) == jp \o c \o <<",">>

\* a scan that forgets to empty the buffer after a flush
NotCleared(c) == c

\* main.rs 121, 138, 149: content = "".to_string()
Cleared(c) == <<>>

\* main.rs 85-91: a character other than '>' is pushed to content
OuterPush ==
    /\ pc = "outer"
    /\ i < chars_num
    /\ html_chars(i) # ">"
    /\ content' = Append(content, html_chars(i))
    /\ i' = i + 1
    /\ UNCHANGED << pc, outcome, req, resp, sends, api_calls, api_status, response,
                    body_string, html_parts, jp_content, gen_vars >>

\* main.rs 92-93: at a '>' the scan enters the inner loop
EnterLoop ==
    /\ pc = "outer"
    /\ i < chars_num
    /\ html_chars(i) = ">"
    /\ pc' = "inner"
    /\ UNCHANGED << outcome, req, resp, sends, api_calls, api_status, response,
                    scan_vars, gen_vars >>

\* main.rs 93-155: one iteration of the inner loop
InnerIter ==
    /\ pc = "inner"
    /\ LET char == html_chars(i)
           pushed == Append(content, char)
       IN  IF ~(i + 1 < chars_num)
           THEN \* 98-105: last character: flush as a plain part, i stays
                /\ Len(html_parts) < chars_num + MaxExtraParts
                /\ content' = pushed
                /\ html_parts' = PushPart(html_parts, pushed, FALSE)
                /\ pc' = "outer"
                /\ UNCHANGED << i, jp_content >>
           ELSE LET next_char == html_chars(i + 1)
                IN  IF next_char = "<"
                    THEN IF ~need_ruby_char(char)
                         THEN \* 109-111
                              /\ content' = pushed
                              /\ i' = i + 1
                              /\ pc' = "outer"
                              /\ UNCHANGED << html_parts, jp_content >>
                         ELSE \* 113-122
                              /\ i' = i + 1
                              /\ html_parts' = PushPart(html_parts, pushed, TRUE)
                              /\ jp_content' = JoinJp(jp_content, pushed)
                              /\ content' = Cleared(pushed)
                              /\ pc' = "outer"
                    ELSE IF ~need_ruby_char(next_char)
                         THEN IF ~need_ruby_char(char)
                              THEN \* 127-128
                                   /\ content' = pushed
                                   /\ i' = i + 1
                                   /\ UNCHANGED << pc, html_parts, jp_content >>
                              ELSE \* 130-138
                                   /\ i' = i + 1
                                   /\ html_parts' = PushPart(html_parts, pushed, TRUE)
                                   /\ jp_content' = JoinJp(jp_content, pushed)
                                   /\ content' = Cleared(pushed)
                                   /\ UNCHANGED pc
                         ELSE IF ~need_ruby_char(char)
                              THEN \* 142-149
                                   /\ i' = i + 1
                                   /\ html_parts' = PushPart(html_parts, pushed, FALSE)
                                   /\ content' = Cleared(pushed)
                                   /\ UNCHANGED << pc, jp_content >>
                              ELSE \* 151-152
                                   /\ content' = pushed
                                   /\ i' = i + 1
                                   /\ UNCHANGED << pc, html_parts, jp_content >>
    /\ UNCHANGED << outcome, req, resp, sends, api_calls, api_status, response,
                    body_string, gen_vars >>

\* a scan that returns at any point of the outer loop, before the text is
\* exhausted
AnalyzeReturnEarly ==
    /\ pc = "outer"
    /\ pc' = "generate"
    /\ UNCHANGED << outcome, req, resp, sends, api_calls, api_status, response,
                    scan_vars, gen_vars >>

\* main.rs 85, 158: the outer loop ends and analyze_jp returns
\* (html_parts, jp_content) to main, which calls generate_html_with_ruby
AnalyzeReturn ==
    /\ pc = "outer"
    /\ ~(i < chars_num)
    /\ pc' = "generate"
    /\ UNCHANGED << outcome, req, resp, sends, api_calls, api_status, response,
                    scan_vars, gen_vars >>

-----------------------------------------------------------------------------
(* get_hiragana and generate_html_with_ruby, main.rs 161-209 *)

\* what the hiragana API may answer: a status, and a body that parses into
\* HiraganaResp or does not
ApiResponses ==
    {[status |-> OK, parses |-> TRUE, converted |-> c] : c \in Converted}
    \cup {[status |-> 500, parses |-> TRUE, converted |-> c] :
             c \in {<<"q">>, <<"q", ",">>}}
    \cup {[status |-> st, parses |-> FALSE, converted |-> <<>>] : st \in {OK, 500}}

\* main.rs 164: str::split(','): the pieces between separators, empty ones kept
RECURSIVE SplitFrom(_, _, _, _, _)
SplitFrom(str, sep, k, cur, acc) ==
    IF k > Len(str) THEN Append(acc, cur)
    ELSE IF str[k] = sep
         THEN SplitFrom(str, sep, k + 1, <<>>, Append(acc, cur))
         ELSE SplitFrom(str, sep, k + 1, Append(cur, str[k]), acc)

split(str, sep) == SplitFrom(str, sep, 1, <<>>, <<>>)

\* main.rs 172: "<ruby><rb>{}</rb><rt>{}</rt></ruby>"
RubyMarkup(c, reading) ==
    <<"<", "r", "u", "b", "y", ">", "<", "r", "b", ">">> \o c
    \o <<"<", "/", "r", "b", ">", "<", "r", "t", ">">> \o reading
    \o <<"<", "/", "r", "t", ">", "<", "/", "r", "u", "b", "y", ">">>

\* a reassembler that never moves on to the next reading
StuckCursor(k) == k

\* main.rs 175: i += 1
NextCursor(k) == k + 1

\* main.rs 163-165, 199-208: the API is called with jp_content; a failed send
\* or a body that does not parse returns Err, otherwise `converted` is split
GetHiragana ==
    /\ pc = "generate"
    /\ api_calls' = api_calls + 1
    /\ \/ \* 199: req.send(API_BACKEND)?
          /\ ReturnErr
          /\ UNCHANGED << api_status, gen_vars >>
       \/ \E r \in ApiResponses :
            /\ api_status' = r.status
            /\ IF ~r.parses
               THEN \* 206: serde_json::from_str(&body_str)?
                    /\ ReturnErr
                    /\ UNCHANGED gen_vars
               ELSE /\ ruby' = split(r.converted, ",")
                    /\ ruby_i' = 0
                    /\ part_idx' = 1
                    /\ html_page' = <<>>
                    /\ pc' = "ruby"
                    /\ UNCHANGED << outcome, response >>
    /\ UNCHANGED << req, resp, sends, scan_vars >>

\* main.rs 166-179: one iteration of `for part in parts`
RubyIter ==
    /\ pc = "ruby"
    /\ part_idx <= Len(html_parts)
    /\ LET part == html_parts[part_idx]
       IN  IF part.need_ruby
           THEN IF ~(ruby_i < Len(ruby))
                THEN \* 169: ruby[i] out of bounds
                     /\ Panic
                     /\ UNCHANGED gen_vars
                ELSE /\ html_page' = html_page \o RubyMarkup(part.content, ruby[ruby_i + 1])
                     /\ ruby_i' = NextCursor(ruby_i)
                     /\ part_idx' = part_idx + 1
                     /\ UNCHANGED << pc, outcome, response, ruby >>
           ELSE /\ html_page' = html_page \o part.content
                /\ part_idx' = part_idx + 1
                /\ UNCHANGED << pc, outcome, response, ruby, ruby_i >>
    /\ UNCHANGED << req, resp, sends, api_calls, api_status, scan_vars >>

\* main.rs 181, 70-73: Ok(html_page) becomes the body of a 200 response
RubyReturn ==
    /\ pc = "ruby"
    /\ part_idx > Len(html_parts)
    /\ ReturnOk([status |-> OK, ctype |-> AbsentHeader, location |-> AbsentHeader,
                 body |-> html_page])
    /\ UNCHANGED << req, resp, sends, api_calls, api_status, scan_vars, gen_vars >>

Next ==
    \/ MethodNotAllowed
    \/ SendOrigin
    \/ Redirect
    \/ SendRedirect
    \/ Decide
    \/ OuterPush
    \/ EnterLoop
    \/ InnerIter
    \/ AnalyzeReturn
    \/ GetHiragana
    \/ RubyIter
    \/ RubyReturn

Spec == Init /\ [][Next]_vars

-----------------------------------------------------------------------------
(* Properties of the Segmenter *)

\* the contents of a list of parts, concatenated in order
RECURSIVE ConcatParts(_)
ConcatParts(parts) ==
    IF parts = <<>> THEN <<>>
    ELSE Head(parts).content \o ConcatParts(Tail(parts))

\* analyze_jp has returned its parts to main
Segmented == pc \in {"generate", "ruby"}

\* position k (from 1) of the document lies in a text node: after a '>' with
\* no '<' since
InTextNode(doc, k) ==
    \E j \in 1..(k - 1) :
        /\ doc[j] = ">"
        /\ \A m \in (j + 1)..k : doc[m] # "<"

\* the parts that cover position k of the document when the parts are laid
\* end to end (none when the parts are shorter than k)
PartsAt(parts, k) ==
    {n \in 1..Len(parts) :
        /\ Len(ConcatParts(SubSeq(parts, 1, n - 1))) < k
        /\ k <= Len(ConcatParts(SubSeq(parts, 1, n)))}

\* C1: once analyze_jp has returned, the contents of the parts concatenated
\* in order are exactly the input text.
C1_RoundTrip == Segmented => ConcatParts(html_parts) = body_string

\* C2: once analyze_jp has returned, every kanji or hiragana character of a
\* text node lies in a part with need_ruby = TRUE, the run that ends the
\* document included.
C2_TextNodeJapaneseNeedsRuby ==
    Segmented =>
        \A k \in 1..Len(body_string) :
            (need_ruby_char(body_string[k]) /\ InTextNode(body_string, k)) =>
                /\ PartsAt(html_parts, k) # {}
                /\ \A n \in PartsAt(html_parts, k) :
                      /\ html_parts[n].need_ruby
                      /\ ConcatParts(SubSeq(html_parts, 1, n))[k] = body_string[k]

\* C3: every part with need_ruby = TRUE holds only kanji and hiragana
\* characters (and at least one), in every state of the scan and after it.
C3_RubyPartsOnlyJapanese ==
    \A n \in 1..Len(html_parts) :
        html_parts[n].need_ruby =>
            /\ html_parts[n].content # <<>>
            /\ \A k \in 1..Len(html_parts[n].content) :
                  \/ is_kanji(html_parts[n].content[k])
                  \/ is_hiragana(html_parts[n].content[k])

\* the scan of a document with katakana, ASCII and tag characters around two
\* runs has returned, with two need_ruby parts, one of them of two characters
C3_Witness ==
    /\ pc = "generate"
    /\ body_string = KatakanaDoc
    /\ \E a, b \in 1..Len(html_parts) :
          /\ a < b
          /\ html_parts[a].need_ruby /\ Len(html_parts[a].content) = 2
          /\ html_parts[b].need_ruby

-----------------------------------------------------------------------------
(* Properties of the Reassembler and of the pipeline *)

\* the number of parts with need_ruby = TRUE among the first n parts
NeedCount(parts, n) == Cardinality({j \in 1..n : parts[j].need_ruby})

\* the API answered with a body that parsed, and its `converted` was split
Answered == pc \in {"ruby", "done"} /\ ruby # <<>>

OpenRuby == <<"<", "r", "u", "b", "y", ">", "<", "r", "b", ">">>
MidRuby == <<"<", "/", "r", "b", ">", "<", "r", "t", ">">>
CloseRuby == <<"<", "/", "r", "t", ">", "<", "/", "r", "u", "b", "y", ">">>

\* what part n contributes to the page when the j-th need_ruby part is
\* paired with the j-th reading
Piece(parts, readings, n) ==
    IF parts[n].need_ruby
    THEN OpenRuby \o parts[n].content \o MidRuby
         \o readings[NeedCount(parts, n)] \o CloseRuby
    ELSE parts[n].content

RECURSIVE PiecesUpTo(_, _, _)
PiecesUpTo(parts, readings, n) ==
    IF n = 0 THEN <<>>
    ELSE PiecesUpTo(parts, readings, n - 1) \o Piece(parts, readings, n)

\* the number of places where `pat` occurs in `str`
Occurrences(str, pat) ==
    Cardinality({k \in 1..(Len(str) - Len(pat) + 1) :
                    SubSeq(str, k, k + Len(pat) - 1) = pat})

\* C4: with N need_ruby parts and exactly N readings, the page returned is
\* every plain part verbatim and the i-th need_ruby part wrapped with the
\* i-th reading, in order, so it holds exactly N ruby annotations.
C4_AlignedReassembly ==
    (/\ pc = "done"
     /\ Answered
     /\ Len(ruby) = NeedCount(html_parts, Len(html_parts)))
    => /\ outcome = "ok"
       /\ response.body = PiecesUpTo(html_parts, ruby, Len(html_parts))
       /\ ruby_i = Len(ruby)
       /\ Occurrences(response.body, OpenRuby) = Len(ruby)

\* a page with two need_ruby parts was rebuilt with two different readings
C4_Witness ==
    /\ pc = "done"
    /\ outcome = "ok"
    /\ Len(ruby) = 2
    /\ ruby[1] # ruby[2]
    /\ NeedCount(html_parts, Len(html_parts)) = 2

\* C5: with fewer readings than need_ruby parts the request ends with an
\* error value: no read past the end of the readings (no panic) and no page.
C5_ShortfallIsError ==
    (/\ Answered
     /\ Len(ruby) < NeedCount(html_parts, Len(html_parts)))
    => /\ outcome # "panic"
       /\ pc = "done" => outcome = "error"

\* C6: with more readings than need_ruby parts the request fails; no page is
\* returned with readings left over.
C6_SurplusIsError ==
    (/\ pc = "done"
     /\ Answered
     /\ Len(ruby) > NeedCount(html_parts, Len(html_parts)))
    => outcome = "error"

\* C7: as long as the scan has produced no need_ruby part, and so for the
\* whole request when it produces none, the hiragana API is not called.
C7_NoCallWithoutRubyParts ==
    NeedCount(html_parts, Len(html_parts)) = 0 => api_calls = 0

\* success statuses and HTML media types, as the claim means them
IsSuccess(st) == st \in 200..299
IsHtmlMediaType(ct) == ct \in {"text/html", "text/html; charset=utf-8"}

\* C8: an origin response that is not a success or not HTML (a missing
\* content-type included) is returned unchanged, the request ends normally,
\* nothing is scanned and the hiragana API is not called.
C8_Passthrough ==
    [][(/\ pc = "decide"
        /\ ~(IsSuccess(resp.status) /\ IsHtmlMediaType(resp.ctype)))
       => /\ pc' = "done"
          /\ outcome' = "ok"
          /\ response' = resp
          /\ html_parts' = <<>>
          /\ api_calls' = 0]_vars

\* doc[a..b] holds no character c with P(c) false
AllIn(doc, a, b, S) == \A k \in a..b : doc[k] \in S

Plain(doc) == {doc[k] : k \in 1..Len(doc)} \ (Kanji \cup Hiragana \cup {"<", ">"})
Japanese == Kanji \cup Hiragana

\* doc is: a tag doc[1..a], plain text doc[a+1..b], a kanji/hiragana run
\* doc[b+1..c], plain text doc[c+1..d-1] and a tag doc[d..Len(doc)]
IsExampleBShape(doc, a, b, c, d) ==
    /\ 1 < a /\ a < b /\ b < c /\ c + 1 < d /\ d < Len(doc)
    /\ doc[1] = "<" /\ doc[a] = ">"
    /\ AllIn(doc, 2, a - 1, Plain(doc) \cup Japanese)
    /\ AllIn(doc, a + 1, b, Plain(doc))
    /\ AllIn(doc, b + 1, c, Japanese)
    /\ AllIn(doc, c + 1, d - 1, Plain(doc))
    /\ doc[d] = "<" /\ doc[Len(doc)] = ">"
    /\ AllIn(doc, d + 1, Len(doc) - 1, Plain(doc) \cup Japanese)

\* s is the beginning of t
IsPrefix(s, t) == Len(s) <= Len(t) /\ s = SubSeq(t, 1, Len(s))

\* C9: a document of the shape tag, plain text, kanji/hiragana run, plain
\* text, tag ("<p>Hello 日本 World</p>") is split into exactly the three parts
\* [tag + plain, run (need_ruby), plain + tag], and with one reading the
\* request ends with the document in which only the run is wrapped.
C9_ExampleB ==
    \A a \in 1..Len(body_string) : \A b \in a..Len(body_string) :
    \A c \in b..Len(body_string) : \A d \in c..Len(body_string) :
        (/\ body_string[1] = "<"
         /\ body_string[Len(body_string)] = ">"
         /\ IsExampleBShape(body_string, a, b, c, d)) =>
            LET doc == body_string
                expected ==
                    << [content |-> SubSeq(doc, 1, b), need_ruby |-> FALSE],
                       [content |-> SubSeq(doc, b + 1, c), need_ruby |-> TRUE],
                       [content |-> SubSeq(doc, c + 1, Len(doc)), need_ruby |-> FALSE] >>
            IN  /\ IsPrefix(html_parts, expected)
                /\ Segmented => html_parts = expected
                /\ (pc = "done" /\ Len(ruby) = 1) =>
                      /\ outcome = "ok"
                      /\ response.body =
                            SubSeq(doc, 1, b)
                            \o OpenRuby \o SubSeq(doc, b + 1, c) \o MidRuby
                            \o ruby[1] \o CloseRuby
                            \o SubSeq(doc, c + 1, Len(doc))

\* C10: a document of kanji and hiragana only, without markup
\* ("日本語が難しいですよ"), is one need_ruby part holding the whole text, and
\* with its reading r the page is <ruby><rb>text</rb><rt>r</rt></ruby>.
C10_ExampleA ==
    (/\ body_string # <<>>
     /\ AllIn(body_string, 1, Len(body_string), Japanese))
    => /\ Segmented =>
             html_parts = << [content |-> body_string, need_ruby |-> TRUE] >>
       /\ (pc = "done" /\ Len(ruby) = 1) =>
             /\ outcome = "ok"
             /\ response.body = OpenRuby \o body_string \o MidRuby
                                \o ruby[1] \o CloseRuby

-----------------------------------------------------------------------------
(* Properties of the response and of the calls to the backends *)

\* main returned the rebuilt page: the API was called and answered
Annotated == pc = "done" /\ outcome = "ok" /\ api_calls > 0

\* C11: on the annotate path (origin 200 text/html) the response has the
\* rebuilt text as body, the origin's success status and the origin's
\* content-type, text/html.
C11_AnnotatedResponseMirrorsOrigin ==
    Annotated =>
        /\ response.body = html_page
        /\ response.status = OK
        /\ response.ctype = "text/html"

\* C12: when the hiragana API answers with a status that is not a success, or
\* with a body that does not parse, the request ends with a failure and no
\* page is rebuilt.
C12_ApiFailureFailsRequest ==
    (/\ api_calls > 0
     /\ \/ ~IsSuccess(api_status)
        \/ ruby = <<>>)
    => /\ pc = "done"
       /\ outcome = "error"

\* C13: in one request the hiragana API is called at most once, however many
\* need_ruby parts there are, and only after the origin response was received
\* and the whole text was scanned.
C13_OneCallAfterSegmenting ==
    /\ api_calls <= 1
    /\ api_calls = 1 =>
          /\ sends >= 1
          /\ resp = NoResponse
          /\ ~(i < chars_num)
          /\ pc \in {"ruby", "done"}

\* a page with two need_ruby parts was rebuilt after one call
C13_Witness ==
    /\ Annotated
    /\ api_calls = 1
    /\ NeedCount(html_parts, Len(html_parts)) = 2

\* the methods the claim names as accepted
AcceptedMethods == {"HEAD", "GET", "POST"}

\* C14: a request whose method is not HEAD, GET or POST is answered in one
\* step with 405 Method Not Allowed, without any send to the origin or call
\* to the hiragana API, and nothing happens after main has returned.
C14_MethodFilter ==
    [][/\ pc # "done"
       /\ (pc = "main" /\ req.method \notin AcceptedMethods) =>
             /\ pc' = "done"
             /\ outcome' = "ok"
             /\ response'.status = METHOD_NOT_ALLOWED
             /\ sends' = 0
             /\ api_calls' = 0]_vars

\* a DELETE request was answered with 405 and no backend was contacted
C14_Witness ==
    /\ pc = "done"
    /\ req.method = "DELETE"
    /\ response.status = METHOD_NOT_ALLOWED
    /\ sends = 0
    /\ api_calls = 0

\* C15: the origin is sent to at most twice in a request; the second send
\* happens only when the first response is a 301 whose Location matches the
\* origin's own host, and it is a GET to that location; after the second send
\* there is no further one, whatever it returns.
C15_BoundedRedirect ==
    [][/\ sends' <= 2
       /\ sends' \in {sends, sends + 1}
       /\ sends' = 2 =>
             \/ sends = 2
             \/ /\ resp.status = MOVED_PERMANENTLY
                /\ re_is_match(resp.location)
                /\ req = [method |-> "GET", uri |-> resp.location]]_vars

\* the second fetch returned a permanent redirect to the origin's own host
\* again, and it was handed to the client instead of being followed
C15_Witness ==
    /\ pc = "done"
    /\ outcome = "ok"
    /\ sends = 2
    /\ resp.status = MOVED_PERMANENTLY
    /\ re_is_match(resp.location)
    /\ response = resp

-----------------------------------------------------------------------------
(* Further properties of the Segmenter *)

\* the scan is in one of its loops
Scanning == pc \in {"outer", "inner"}

\* a measure of what is left to scan: the characters not yet passed, and at
\* one character the positions "outer loop at a '>'", "inner loop", "outer
\* loop at another character", in that order
ScanRank ==
    3 * (chars_num - i)
    + (IF pc = "inner" THEN 1
       ELSE IF pc = "outer" /\ i < chars_num /\ html_chars(i) = ">" THEN 2
       ELSE 0)

\* C16: the scan terminates: every step of the outer or inner loop either ends
\* the scan or brings it closer to the end of the text (it advances the index,
\* or moves on at the same index without ever coming back), so that after at
\* most three steps per character analyze_jp returns, with finitely many parts.
C16_ScanTerminates ==
    [][Scanning =>
          /\ pc' = "generate" \/ ScanRank' < ScanRank
          /\ Len(html_parts') <= chars_num]_vars

\* the contents of the need_ruby parts, in order
RECURSIVE RubyContents(_)
RubyContents(parts) ==
    IF parts = <<>> THEN <<>>
    ELSE IF Head(parts).need_ruby
         THEN <<Head(parts).content>> \o RubyContents(Tail(parts))
         ELSE RubyContents(Tail(parts))

\* C17: for a document with N >= 1 need_ruby parts the payload jp_content is
\* their contents joined by single ',', so that splitting it on ',' gives
\* exactly those N contents: no leading, trailing or empty token.
C17_PayloadRoundTrip ==
    (/\ Segmented
     /\ NeedCount(html_parts, Len(html_parts)) >= 1)
    => split(jp_content, ",") = RubyContents(html_parts)

\* C18: no two consecutive parts have the same need_ruby flag, during the scan
\* and after it.
C18_Alternation ==
    \A n \in 1..(Len(html_parts) - 1) :
        html_parts[n].need_ruby # html_parts[n + 1].need_ruby

\* position k of the document is markup: it lies in the prefix that ends with
\* the first '>', or between a '<' and the next '>' (both included)
InMarkup(doc, k) ==
    \/ \E e \in k..Len(doc) :
          /\ doc[e] = ">"
          /\ \A m \in 1..(e - 1) : doc[m] # ">"
    \/ \E a \in 1..k : \E e \in k..Len(doc) :
          /\ doc[a] = "<"
          /\ doc[e] = ">"
          /\ \A m \in a..(e - 1) : doc[m] # ">"

\* C19: once analyze_jp has returned, every character of the markup lies in a
\* part with need_ruby = FALSE, a kanji or hiragana character included.
C19_MarkupIsPlain ==
    Segmented =>
        \A k \in 1..Len(body_string) :
            InMarkup(body_string, k) =>
                /\ PartsAt(html_parts, k) # {}
                /\ \A n \in PartsAt(html_parts, k) : ~html_parts[n].need_ruby

-----------------------------------------------------------------------------
(* The gate of main *)

\* C20: main takes the annotate branch (the Segmenter, then the Reassembler)
\* exactly for the origin responses with a success status and an HTML media
\* type, text/html with a charset parameter included; it returns the origin
\* response itself only when the status is not a success or the content-type
\* is not an HTML media type.
C20_DecideGateExact ==
    [][pc = "decide" =>
          LET html == IsSuccess(resp.status) /\ IsHtmlMediaType(resp.ctype)
          IN  /\ (pc' = "outer" /\ body_string' = resp.body) <=> html
              /\ (pc' = "done" /\ outcome' = "ok" /\ response' = resp) => ~html]_vars
====
